---- MODULE Spec2Model ----
(***************************************************************************)
(* rock5: a SOCKS5 proxy (src/src/main.rs).  The accept loop of main       *)
(* spawns one task per accepted connection; each task runs handle_client,  *)
(* which negotiates the method, parses the request, resolves and connects  *)
(* to the target, replies, and relays with copy_bidirectional.             *)
(*                                                                         *)
(* One action per step of handle_client between two suspension points      *)
(* (.await): a read_exact with the checks that follow it, a write_all,     *)
(* lookup_host, TcpStream::connect, and the steps of the relay.            *)
(***************************************************************************)
EXTENDS Integers, Sequences, FiniteSets, TLC

VARIABLES sess, running

vars == <<sess, running>>

---------------------------------------------------------------------------
(* Protocol constants, main.rs lines 9-21.                                 *)

SOCKS_VERSION == 5

NO_AUTHENTICATION_REQUIRED == 0

CONNECT_COMMAND == 1

RSV == 0

ATYP_IPV4 == 1

ATYP_DOMAIN_NAME == 3

ATYP_IPV6 == 4

REP_SUCCEEDED == 0

REP_GENERAL_FAILURE == 1

NO_ACCEPTABLE_METHODS == 255

REP_CONNECTION_REFUSED == 5

REP_HOST_UNREACHABLE == 4

REP_TTL_EXPIRED == 6

---------------------------------------------------------------------------
(* Bounds of the model.                                                    *)

\* longest method list a client offers
MaxMethods == 2

\* longest domain name a client sends
MaxDomain == 2

\* bytes each peer sends during the relay
MaxRelay == 2

\* concurrent connections in the specification of concurrent sessions
MaxSessions == 2

---------------------------------------------------------------------------
(* Input alphabets.                                                        *)

Sessions == 1..MaxSessions

\* the session of the single-connection specification
Solo == {1}

VerBytes == {4, SOCKS_VERSION}

MethodBytes == {NO_AUTHENTICATION_REQUIRED, 2}

CmdBytes == {CONNECT_COMMAND, 2, 3}

RsvBytes == {RSV, 1}

AtypBytes == {ATYP_IPV4, ATYP_DOMAIN_NAME, ATYP_IPV6, 5}

\* an ASCII letter and a byte that is not valid UTF-8
DomainBytes == {97, 255}

RECURSIVE SeqsOfLen(_, _)
SeqsOfLen(S, n) ==
    IF n = 0 THEN {<<>>}
    ELSE {<<x>> \o t : x \in S, t \in SeqsOfLen(S, n - 1)}

\* the sequences over S with a length in lens
SeqsIn(S, lens) == UNION {SeqsOfLen(S, n) : n \in lens}

V4Octets == {<<127, 0, 0, 1>>}

V6Octets == {<<0, 0, 0, 0, 0, 0, 0, 0, 0, 0, 0, 0, 0, 0, 0, 1>>}

\* port bytes as sent: 80 and 8080
PortPairs == {<<0, 80>>, <<31, 144>>}

IpV4(o) == [v |-> 4, o |-> o]

IpV6(o) == [v |-> 6, o |-> o]

SockAddr(ip, port) == [ip |-> ip, port |-> port]

\* the addresses the resolver may answer a name with
HostIps == {IpV4(<<10, 0, 0, 7>>)}

\* the proxy's own address on the upstream socket, per address family
LocalAddr(ip) ==
    IF ip.v = 4 THEN SockAddr(IpV4(<<192, 168, 0, 2>>), 40000)
    ELSE SockAddr(IpV6(<<254, 128, 0, 0, 0, 0, 0, 0, 0, 0, 0, 0, 0, 0, 0, 2>>), 40001)

\* the k-th byte each peer sends once the relay runs
ClientByte(k) == 100 + k

TargetByte(k) == 200 + k

\* SocketAddr::new(IpAddr::V4(Ipv4Addr::UNSPECIFIED), 0)
UNSPECIFIED == SockAddr(IpV4(<<0, 0, 0, 0>>), 0)

NoIp == [v |-> 0, o |-> <<>>]

NoSock == SockAddr(NoIp, 0)

NoTarget == [kind |-> "none", text |-> <<>>]

---------------------------------------------------------------------------
(* State of one connection: the locals of handle_client and the two        *)
(* streams.                                                                *)
(*   pc        the suspension point the task is at                         *)
(*   cin       the bytes read from the client stream so far                *)
(*   cout      the bytes handed to writes on the client stream             *)
(*   werr      the last write on the client stream returned an error       *)
(*   tin/tout  the bytes read from / written to the target stream          *)

Fresh ==
    [pc |-> "idle", cin |-> <<>>, cout |-> <<>>, werr |-> FALSE,
     nmethods |-> 0, atyp |-> 0, dlen |-> 0,
     target_addr |-> NoTarget, target_port |-> 0,
     target_socket_addr |-> NoSock, bind_addr |-> NoSock,
     resolves |-> 0, connects |-> 0, upstream |-> "none",
     reqEnd |-> 0, tin |-> <<>>, tout |-> <<>>,
     bufCT |-> <<>>, bufTC |-> <<>>, stCT |-> "idle", stTC |-> "idle",
     relayErr |-> FALSE, replyEnd |-> 0,
     rep_code |-> 0, rep_addr |-> NoSock, after_err |-> "none",
     result |-> "none", err |-> "none", logged |-> FALSE,
     client_open |-> FALSE]

Init ==
    /\ sess = [s \in Sessions |-> Fresh]
    /\ running = TRUE

---------------------------------------------------------------------------
(* Pure helpers.                                                           *)

\* Contains, looking at the first element only
ContainsFirst(seq, b) == Len(seq) > 0 /\ seq[1] = b

Contains(seq, b) == \E i \in 1..Len(seq) : seq[i] = b

\* String::from_utf8_lossy on one byte of the alphabet: an ASCII byte is
\* kept, a byte that is no UTF-8 becomes U+FFFD
Lossy(b) == IF b < 128 THEN b ELSE 65533

LossyString(bytes) == [i \in 1..Len(bytes) |-> Lossy(bytes[i])]

\* FromBeBytes taking the first byte as the low one
FromLeBytes(b1, b2) == (b2 * 256 + b1) % 65536

\* u16::from_be_bytes
FromBeBytes(b1, b2) == (b1 * 256 + b2) % 65536

\* PutU16 with the low byte first
PutU16LittleEndian(n) == <<n % 256, (n \div 256) % 256>>

\* BufMut::put_u16: big-endian
PutU16(n) == <<(n \div 256) % 256, n % 256>>

\* the bytes send_reply builds
EncodeReply(rep_code, bind_addr) ==
    <<SOCKS_VERSION, rep_code, RSV>>
    \o (IF bind_addr.ip.v = 4 THEN <<ATYP_IPV4>> ELSE <<ATYP_IPV6>>)
    \o bind_addr.ip.o
    \o PutU16(bind_addr.port)

ConnectErrors == {"ConnectionRefused", "AddrNotAvailable", "TimedOut", "HostUnreachable"}

\* RepCodeFor with the arms for refused and unreachable exchanged
RepCodeSwapped(kind) ==
    CASE kind = "ConnectionRefused" -> REP_HOST_UNREACHABLE
      [] kind = "AddrNotAvailable" -> REP_CONNECTION_REFUSED
      [] kind = "TimedOut" -> REP_TTL_EXPIRED
      [] OTHER -> REP_GENERAL_FAILURE

\* the match on e.kind() after a failed connect
RepCodeFor(kind) ==
    CASE kind = "ConnectionRefused" -> REP_CONNECTION_REFUSED
      [] kind = "AddrNotAvailable" -> REP_HOST_UNREACHABLE
      [] kind = "TimedOut" -> REP_TTL_EXPIRED
      [] OTHER -> REP_GENERAL_FAILURE

\* what the resolver may answer for a name: an error, no address, or
\* addresses of which the handler takes the first
ResolverAnswers ==
    {[tag |-> "err", ip |-> NoIp], [tag |-> "none", ip |-> NoIp]}
    \cup {[tag |-> "some", ip |-> h] : h \in HostIps}

\* tokio::net::lookup_host on "host:port": a literal address parses to
\* itself and the resolver is not asked, a name gets the resolver's answer
LookupHost(target, port, ans) ==
    IF target.kind = "ip4" THEN [tag |-> "some", addr |-> SockAddr(IpV4(target.text), port)]
    ELSE IF target.kind = "ip6" THEN [tag |-> "some", addr |-> SockAddr(IpV6(target.text), port)]
    ELSE [tag |-> ans.tag, addr |-> IF ans.tag = "some" THEN SockAddr(ans.ip, port) ELSE NoSock]

---------------------------------------------------------------------------
(* The task of one connection.                                             *)

\* handle_client returns: the streams it owns are dropped, and the task
\* spawned by main logs an Err
Returned(r, res, e) ==
    [r EXCEPT !.pc = "done", !.result = res, !.err = e,
              !.logged = (res = "Err"), !.client_open = FALSE,
              !.upstream = IF @ = "open" THEN "closed" ELSE @]

\* TaskStep with the handler awaited in the accept loop and its error
\* returned from main with "?"
TaskStepInline(s, r) ==
    /\ sess' = [sess EXCEPT ![s] = r]
    /\ running' = (r.result # "Err")

\* a step of the task of connection s: the task owns its session and
\* nothing else, and its result stays inside the task
TaskStep(s, r) ==
    /\ sess' = [sess EXCEPT ![s] = r]
    /\ running' = running

\* listener.accept() returns a connection and main spawns its task
Accept(s) ==
    /\ running
    /\ sess[s].pc = "idle"
    /\ \A t \in Sessions : t < s => sess[t].pc # "idle"
    /\ sess' = [sess EXCEPT ![s] = [Fresh EXCEPT !.pc = "method_hdr", !.client_open = TRUE]]
    /\ running' = running

\* listener.accept() returns an error: main returns it and the process ends
AcceptError ==
    /\ running
    /\ running' = FALSE
    /\ sess' = sess

ReadPcs == {"method_hdr", "methods", "req_hdr", "addr_v4", "dom_len", "dom_name", "addr_v6", "port"}

ReplyPcs == {"reply_cmd", "reply_atyp", "reply_unres", "reply_conn", "reply_ok"}

\* a read_exact on the client stream fails (end of stream, reset)
ClientReadError(s) ==
    /\ running
    /\ sess[s].pc \in ReadPcs
    /\ TaskStep(s, Returned(sess[s], "Err", "read"))

\* ReadMethodHeader reading the greeting again after an empty method list
ReadMethodHeaderRetry(s, ver, n) ==
    LET r == sess[s]
        r1 == [r EXCEPT !.cin = @ \o <<ver, n>>, !.nmethods = n]
    IN /\ running
       /\ r.pc = "method_hdr"
       /\ TaskStep(s,
            IF ver # SOCKS_VERSION THEN Returned(r1, "Err", "Unsupported SOCKS version")
            ELSE IF n = 0 THEN [r1 EXCEPT !.pc = "method_hdr"]
            ELSE [r1 EXCEPT !.pc = "methods"])

\* ReadMethodHeader checking NMETHODS before VER
ReadMethodHeaderCountFirst(s, ver, n) ==
    LET r == sess[s]
        r1 == [r EXCEPT !.cin = @ \o <<ver, n>>, !.nmethods = n]
    IN /\ running
       /\ r.pc = "method_hdr"
       /\ TaskStep(s,
            IF n = 0 THEN Returned(r1, "Err", "No methods offered")
            ELSE IF ver # SOCKS_VERSION THEN Returned(r1, "Err", "Unsupported SOCKS version")
            ELSE [r1 EXCEPT !.pc = "methods"])

\* read VER and NMETHODS, check them
ReadMethodHeader(s, ver, n) ==
    LET r == sess[s]
        r1 == [r EXCEPT !.cin = @ \o <<ver, n>>, !.nmethods = n]
    IN /\ running
       /\ r.pc = "method_hdr"
       /\ TaskStep(s,
            IF ver # SOCKS_VERSION THEN Returned(r1, "Err", "Unsupported SOCKS version")
            ELSE IF n = 0 THEN Returned(r1, "Err", "No methods offered")
            ELSE [r1 EXCEPT !.pc = "methods"])

\* read the NMETHODS methods, look for "no authentication"
ReadMethods(s, ms) ==
    LET r == sess[s]
        r1 == [r EXCEPT !.cin = @ \o ms]
    IN /\ running
       /\ r.pc = "methods"
       /\ Len(ms) = r.nmethods
       /\ TaskStep(s,
            IF ~Contains(ms, NO_AUTHENTICATION_REQUIRED)
            THEN [r1 EXCEPT !.pc = "write_reject"]
            ELSE [r1 EXCEPT !.pc = "write_accept"])

\* write the method selection reply: 05 FF and fail, or 05 00 and go on
WriteMethodSelection(s, ok) ==
    LET r == sess[s]
        method == IF r.pc = "write_reject" THEN NO_ACCEPTABLE_METHODS
                  ELSE NO_AUTHENTICATION_REQUIRED
        r1 == [r EXCEPT !.cout = @ \o <<SOCKS_VERSION, method>>, !.werr = ~ok]
    IN /\ running
       /\ r.pc \in {"write_reject", "write_accept"}
       /\ TaskStep(s,
            IF ~ok THEN Returned(r1, "Err", "write")
            ELSE IF r.pc = "write_reject"
            THEN Returned(r1, "Err", "No supported authentication method")
            ELSE [r1 EXCEPT !.pc = "req_hdr"])

\* the call send_reply(rep_code, addr) that is to be awaited next
Reply(r, pc, rep_code, addr, e) ==
    [r EXCEPT !.pc = pc, !.rep_code = rep_code, !.rep_addr = addr, !.after_err = e]

\* ReadRequestHeader without the arm for an unknown ATYP: the address is
\* read as if it were IPv4
ReadRequestHeaderNoDefault(s, ver, cmd, rsv, atyp) ==
    LET r == sess[s]
        r1 == [r EXCEPT !.cin = @ \o <<ver, cmd, rsv, atyp>>, !.atyp = atyp]
    IN /\ running
       /\ r.pc = "req_hdr"
       /\ TaskStep(s,
            IF ver # SOCKS_VERSION
            THEN Returned(r1, "Err", "Invalid SOCKS version in request")
            ELSE IF rsv # RSV THEN Returned(r1, "Err", "Non-zero RSV byte")
            ELSE IF cmd # CONNECT_COMMAND
            THEN Reply(r1, "reply_cmd", REP_GENERAL_FAILURE, UNSPECIFIED, "Unsupported command")
            ELSE IF atyp = ATYP_DOMAIN_NAME THEN [r1 EXCEPT !.pc = "dom_len"]
            ELSE IF atyp = ATYP_IPV6 THEN [r1 EXCEPT !.pc = "addr_v6"]
            ELSE [r1 EXCEPT !.pc = "addr_v4"])

\* ReadRequestHeader checking the command before the version and RSV
ReadRequestHeaderCmdFirst(s, ver, cmd, rsv, atyp) ==
    LET r == sess[s]
        r1 == [r EXCEPT !.cin = @ \o <<ver, cmd, rsv, atyp>>, !.atyp = atyp]
    IN /\ running
       /\ r.pc = "req_hdr"
       /\ TaskStep(s,
            IF cmd # CONNECT_COMMAND
            THEN Reply(r1, "reply_cmd", REP_GENERAL_FAILURE, UNSPECIFIED, "Unsupported command")
            ELSE IF ver # SOCKS_VERSION
            THEN Returned(r1, "Err", "Invalid SOCKS version in request")
            ELSE IF rsv # RSV THEN Returned(r1, "Err", "Non-zero RSV byte")
            ELSE IF atyp = ATYP_IPV4 THEN [r1 EXCEPT !.pc = "addr_v4"]
            ELSE IF atyp = ATYP_DOMAIN_NAME THEN [r1 EXCEPT !.pc = "dom_len"]
            ELSE IF atyp = ATYP_IPV6 THEN [r1 EXCEPT !.pc = "addr_v6"]
            ELSE Reply(r1, "reply_atyp", REP_GENERAL_FAILURE, UNSPECIFIED, "Unsupported address type"))

\* read VER CMD RSV ATYP, check them in this order
ReadRequestHeader(s, ver, cmd, rsv, atyp) ==
    LET r == sess[s]
        r1 == [r EXCEPT !.cin = @ \o <<ver, cmd, rsv, atyp>>, !.atyp = atyp]
    IN /\ running
       /\ r.pc = "req_hdr"
       /\ TaskStep(s,
            IF ver # SOCKS_VERSION
            THEN Returned(r1, "Err", "Invalid SOCKS version in request")
            ELSE IF rsv # RSV THEN Returned(r1, "Err", "Non-zero RSV byte")
            ELSE IF cmd # CONNECT_COMMAND
            THEN Reply(r1, "reply_cmd", REP_GENERAL_FAILURE, UNSPECIFIED, "Unsupported command")
            ELSE IF atyp = ATYP_IPV4 THEN [r1 EXCEPT !.pc = "addr_v4"]
            ELSE IF atyp = ATYP_DOMAIN_NAME THEN [r1 EXCEPT !.pc = "dom_len"]
            ELSE IF atyp = ATYP_IPV6 THEN [r1 EXCEPT !.pc = "addr_v6"]
            ELSE Reply(r1, "reply_atyp", REP_GENERAL_FAILURE, UNSPECIFIED, "Unsupported address type"))

\* read the 4 bytes of an IPv4 address
ReadAddrV4(s, o) ==
    LET r == sess[s]
    IN /\ running
       /\ r.pc = "addr_v4"
       /\ Len(o) = 4
       /\ TaskStep(s, [r EXCEPT !.cin = @ \o o, !.pc = "port",
                                !.target_addr = [kind |-> "ip4", text |-> o]])

\* read the length byte of a domain name
ReadDomainLen(s, len) ==
    LET r == sess[s]
    IN /\ running
       /\ r.pc = "dom_len"
       /\ TaskStep(s, [r EXCEPT !.cin = @ \o <<len>>, !.pc = "dom_name", !.dlen = len])

\* read the len bytes of the domain name
ReadDomainName(s, name) ==
    LET r == sess[s]
    IN /\ running
       /\ r.pc = "dom_name"
       /\ Len(name) = r.dlen
       /\ TaskStep(s, [r EXCEPT !.cin = @ \o name, !.pc = "port",
                                !.target_addr = [kind |-> "domain", text |-> LossyString(name)]])

\* read the 16 bytes of an IPv6 address
ReadAddrV6(s, o) ==
    LET r == sess[s]
    IN /\ running
       /\ r.pc = "addr_v6"
       /\ Len(o) = 16
       /\ TaskStep(s, [r EXCEPT !.cin = @ \o o, !.pc = "port",
                                !.target_addr = [kind |-> "ip6", text |-> o]])

\* read the 2 bytes of the port
ReadPort(s, b1, b2) ==
    LET r == sess[s]
    IN /\ running
       /\ r.pc = "port"
       /\ TaskStep(s, [r EXCEPT !.cin = @ \o <<b1, b2>>, !.pc = "resolve",
                                !.target_port = FromBeBytes(b1, b2),
                                !.reqEnd = Len(r.cin) + 2])

\* lookup_host(...).await?.next()
Resolve(s, ans) ==
    LET r == sess[s]
        r1 == [r EXCEPT !.resolves = @ + 1]
        out == LookupHost(r.target_addr, r.target_port, ans)
    IN /\ running
       /\ r.pc = "resolve"
       /\ TaskStep(s,
            IF out.tag = "err" THEN Returned(r1, "Err", "lookup")
            ELSE IF out.tag = "none"
            THEN Reply(r1, "reply_unres", REP_GENERAL_FAILURE, UNSPECIFIED,
                       "Could not resolve target address")
            ELSE [r1 EXCEPT !.pc = "connect", !.target_socket_addr = out.addr])

\* Connect trying once more after a first failed attempt
ConnectRetry(s, out) ==
    LET r == sess[s]
        r1 == [r EXCEPT !.connects = @ + 1]
        local == LocalAddr(r.target_socket_addr.ip)
    IN /\ running
       /\ r.pc = "connect"
       /\ TaskStep(s,
            IF out = "Ok"
            THEN Reply([r1 EXCEPT !.upstream = "open", !.bind_addr = local],
                       "reply_ok", REP_SUCCEEDED, local, "none")
            ELSE IF out = "LocalAddrError"
            THEN Returned([r1 EXCEPT !.upstream = "open"], "Err", "local_addr")
            ELSE IF r.connects = 0 THEN r1
            ELSE Reply(r1, "reply_conn", RepCodeFor(out), r.target_socket_addr, out))

\* TcpStream::connect(target_socket_addr), then local_addr() of the stream
Connect(s, out) ==
    LET r == sess[s]
        r1 == [r EXCEPT !.connects = @ + 1]
        local == LocalAddr(r.target_socket_addr.ip)
    IN /\ running
       /\ r.pc = "connect"
       /\ TaskStep(s,
            IF out = "Ok"
            THEN Reply([r1 EXCEPT !.upstream = "open", !.bind_addr = local],
                       "reply_ok", REP_SUCCEEDED, local, "none")
            ELSE IF out = "LocalAddrError"
            THEN Returned([r1 EXCEPT !.upstream = "open"], "Err", "local_addr")
            ELSE Reply(r1, "reply_conn", RepCodeFor(out), r.target_socket_addr, out))

\* SendReply without the return after a failure reply
SendReplyNoReturn(s, ok) ==
    LET r == sess[s]
        r1 == [r EXCEPT !.cout = @ \o EncodeReply(r.rep_code, r.rep_addr), !.werr = ~ok]
    IN /\ running
       /\ r.pc \in ReplyPcs
       /\ TaskStep(s,
            IF ~ok THEN Returned(r1, "Err", "write")
            ELSE [r1 EXCEPT !.pc = "relay", !.replyEnd = Len(r1.cout),
                            !.stCT = "copy", !.stTC = "copy"])

\* SendReply following a failure reply by a second, general-failure reply
SendReplyTwice(s, ok) ==
    LET r == sess[s]
        r1 == [r EXCEPT !.cout = @ \o EncodeReply(r.rep_code, r.rep_addr), !.werr = ~ok]
        r2 == [r1 EXCEPT !.cout = @ \o EncodeReply(REP_GENERAL_FAILURE, UNSPECIFIED)]
    IN /\ running
       /\ r.pc \in ReplyPcs
       /\ TaskStep(s,
            IF ~ok THEN Returned(r1, "Err", "write")
            ELSE IF r.pc = "reply_ok"
            THEN [r1 EXCEPT !.pc = "relay", !.replyEnd = Len(r1.cout),
                            !.stCT = "copy", !.stTC = "copy"]
            ELSE Returned(r2, "Err", r.after_err))

\* send_reply: build the reply and write it; after a failure reply the
\* handler returns its error, after the success reply it starts the relay
SendReply(s, ok) ==
    LET r == sess[s]
        r1 == [r EXCEPT !.cout = @ \o EncodeReply(r.rep_code, r.rep_addr), !.werr = ~ok]
    IN /\ running
       /\ r.pc \in ReplyPcs
       /\ TaskStep(s,
            IF ~ok THEN Returned(r1, "Err", "write")
            ELSE IF r.pc = "reply_ok"
            THEN [r1 EXCEPT !.pc = "relay", !.replyEnd = Len(r1.cout),
                            !.stCT = "copy", !.stTC = "copy"]
            ELSE Returned(r1, "Err", r.after_err))

---------------------------------------------------------------------------
(* The relay: io::copy_bidirectional(client_stream, target_stream).  Each  *)
(* direction reads into its buffer and writes the buffer out; at end of    *)
(* stream it writes out what is left, shuts down the write side of the     *)
(* opposite stream and is done.  The call returns when both directions are *)
(* done, or at once with the error of any read, write or shutdown.         *)
(*   d = "CT": client to target,  d = "TC": target to client               *)

Dirs == {"CT", "TC"}

St(r, d) == IF d = "CT" THEN r.stCT ELSE r.stTC

Buf(r, d) == IF d = "CT" THEN r.bufCT ELSE r.bufTC

\* the bytes read from the source of direction d since the relay began
RelayIn(r, d) == IF d = "CT" THEN SubSeq(r.cin, r.reqEnd + 1, Len(r.cin)) ELSE r.tin

\* the bytes written to the sink of direction d since the relay began
RelayOut(r, d) == IF d = "CT" THEN r.tout ELSE SubSeq(r.cout, r.replyEnd + 1, Len(r.cout))

\* a read of direction d returns the next byte its peer sent
RelayRead(s, d, limit) ==
    LET r == sess[s]
        k == Len(RelayIn(r, d)) + 1
    IN /\ running
       /\ r.pc = "relay"
       /\ St(r, d) = "copy"
       /\ k <= limit
       /\ TaskStep(s,
            IF d = "CT"
            THEN [r EXCEPT !.cin = Append(@, ClientByte(k)), !.bufCT = Append(@, ClientByte(k))]
            ELSE [r EXCEPT !.tin = Append(@, TargetByte(k)), !.bufTC = Append(@, TargetByte(k))])

\* RelayWrite that does not advance in the buffer
RelayWriteNoAdvance(s, d) ==
    LET r == sess[s]
    IN /\ running
       /\ r.pc = "relay"
       /\ St(r, d) \in {"copy", "eof"}
       /\ Buf(r, d) # <<>>
       /\ Len(RelayOut(r, d)) < Len(RelayIn(r, d))
       /\ TaskStep(s,
            IF d = "CT"
            THEN [r EXCEPT !.tout = Append(@, Head(r.bufCT))]
            ELSE [r EXCEPT !.cout = Append(@, Head(r.bufTC))])

\* a write of direction d takes the first byte of the buffer
RelayWrite(s, d) ==
    LET r == sess[s]
    IN /\ running
       /\ r.pc = "relay"
       /\ St(r, d) \in {"copy", "eof"}
       /\ Buf(r, d) # <<>>
       /\ TaskStep(s,
            IF d = "CT"
            THEN [r EXCEPT !.tout = Append(@, Head(r.bufCT)), !.bufCT = Tail(@)]
            ELSE [r EXCEPT !.cout = Append(@, Head(r.bufTC)), !.bufTC = Tail(@)])

\* a read of direction d returns 0 bytes: end of stream
RelayEof(s, d) ==
    LET r == sess[s]
    IN /\ running
       /\ r.pc = "relay"
       /\ St(r, d) = "copy"
       /\ TaskStep(s, IF d = "CT" THEN [r EXCEPT !.stCT = "eof"] ELSE [r EXCEPT !.stTC = "eof"])

\* RelayShutdown of a relay that returns when the first direction is done
RelayShutdownFirst(s, d) ==
    LET r == sess[s]
        r1 == IF d = "CT" THEN [r EXCEPT !.stCT = "done"] ELSE [r EXCEPT !.stTC = "done"]
    IN /\ running
       /\ r.pc = "relay"
       /\ St(r, d) = "eof"
       /\ Buf(r, d) = <<>>
       /\ TaskStep(s, Returned(r1, "Ok", "none"))

\* direction d has written out its buffer after end of stream: it shuts
\* down the opposite write side and is done; copy_bidirectional returns
\* once both directions are done, and handle_client returns Ok(())
RelayShutdown(s, d) ==
    LET r == sess[s]
        r1 == IF d = "CT" THEN [r EXCEPT !.stCT = "done"] ELSE [r EXCEPT !.stTC = "done"]
    IN /\ running
       /\ r.pc = "relay"
       /\ St(r, d) = "eof"
       /\ Buf(r, d) = <<>>
       /\ TaskStep(s,
            IF r1.stCT = "done" /\ r1.stTC = "done" THEN Returned(r1, "Ok", "none") ELSE r1)

\* RelayError with the relay's error returned from the handler
RelayErrorPropagated(s) ==
    LET r == sess[s]
    IN /\ running
       /\ r.pc = "relay"
       /\ TaskStep(s, Returned([r EXCEPT !.relayErr = TRUE], "Err", "relay"))

\* an I/O operation of the relay fails: copy_bidirectional returns the
\* error at once, the handler logs it and returns Ok(())
RelayError(s) ==
    LET r == sess[s]
    IN /\ running
       /\ r.pc = "relay"
       /\ TaskStep(s, Returned([r EXCEPT !.relayErr = TRUE], "Ok", "none"))

---------------------------------------------------------------------------
(* Specifications.                                                         *)

\* what the clients, the resolver and the network may do
Rich ==
    [vers |-> VerBytes, nmethods |-> 0..MaxMethods, methods |-> MethodBytes,
     cmds |-> CmdBytes, rsvs |-> RsvBytes, atyps |-> AtypBytes,
     v4 |-> V4Octets, v6 |-> V6Octets,
     dlens |-> 0..MaxDomain, dbytes |-> DomainBytes, ports |-> PortPairs,
     answers |-> ResolverAnswers,
     connect |-> {"Ok", "LocalAddrError"} \cup ConnectErrors,
     relay |-> MaxRelay]

\* a small choice of the same, for several connections at once
Terse ==
    [vers |-> VerBytes, nmethods |-> {0, 1}, methods |-> MethodBytes,
     cmds |-> {CONNECT_COMMAND, 2}, rsvs |-> RsvBytes, atyps |-> AtypBytes,
     v4 |-> V4Octets, v6 |-> V6Octets,
     dlens |-> {1}, dbytes |-> {97}, ports |-> {<<0, 80>>},
     answers |-> ResolverAnswers,
     connect |-> {"Ok", "ConnectionRefused"},
     relay |-> 1]

\* the steps of the task of connection s
Handle(s, P) ==
    \/ ClientReadError(s)
    \/ \E ver \in P.vers, n \in P.nmethods : ReadMethodHeader(s, ver, n)
    \/ \E ms \in SeqsIn(P.methods, P.nmethods) : ReadMethods(s, ms)
    \/ \E ok \in BOOLEAN : WriteMethodSelection(s, ok)
    \/ \E ver \in P.vers, cmd \in P.cmds, rsv \in P.rsvs, atyp \in P.atyps :
          ReadRequestHeader(s, ver, cmd, rsv, atyp)
    \/ \E o \in P.v4 : ReadAddrV4(s, o)
    \/ \E len \in P.dlens : ReadDomainLen(s, len)
    \/ \E name \in SeqsIn(P.dbytes, P.dlens) : ReadDomainName(s, name)
    \/ \E o \in P.v6 : ReadAddrV6(s, o)
    \/ \E pp \in P.ports : ReadPort(s, pp[1], pp[2])
    \/ \E ans \in P.answers : Resolve(s, ans)
    \/ \E out \in P.connect : Connect(s, out)
    \/ \E ok \in BOOLEAN : SendReply(s, ok)
    \/ \E d \in Dirs : RelayRead(s, d, P.relay)
    \/ \E d \in Dirs : RelayWrite(s, d)
    \/ \E d \in Dirs : RelayEof(s, d)
    \/ \E d \in Dirs : RelayShutdown(s, d)
    \/ RelayError(s)

\* one connection, every input of the alphabets
Next ==
    \/ \E s \in Solo : Accept(s) \/ Handle(s, Rich)
    \/ AcceptError

Spec == Init /\ [][Next]_vars

\* several connections at once
NextIso ==
    \/ \E s \in Sessions : Accept(s) \/ Handle(s, Terse)
    \/ AcceptError

SpecIso == Init /\ [][NextIso]_vars

\* one connection under the scheduling of the runtime: a task that can
\* write, look up or connect does so; a read waits for its peer
NextFair ==
    \/ \E s \in Solo : Accept(s) \/ Handle(s, Terse)
    \/ AcceptError

Fairness ==
    \A s \in Solo :
        /\ WF_vars(\E ok \in BOOLEAN : WriteMethodSelection(s, ok))
        /\ WF_vars(\E ok \in BOOLEAN : SendReply(s, ok))
        /\ WF_vars(\E ans \in ResolverAnswers : Resolve(s, ans))
        /\ WF_vars(\E out \in Terse.connect : Connect(s, out))

FairSpec == Init /\ [][NextFair]_vars /\ Fairness

---------------------------------------------------------------------------
(* What a session has seen and done, read off its record.                  *)

\* the method list has been read whole (VER was 5 and NMETHODS >= 1)
MethodsRead(r) ==
    /\ Len(r.cin) >= 2
    /\ r.cin[1] = SOCKS_VERSION
    /\ r.nmethods >= 1
    /\ Len(r.cin) >= 2 + r.nmethods

MethodList(r) == SubSeq(r.cin, 3, 2 + r.nmethods)

\* the 4 bytes of the request header have been read
HeaderRead(r) == MethodsRead(r) /\ Len(r.cin) >= 2 + r.nmethods + 4

ReqVer(r) == r.cin[2 + r.nmethods + 1]

ReqCmd(r) == r.cin[2 + r.nmethods + 2]

ReqRsv(r) == r.cin[2 + r.nmethods + 3]

ReqAtyp(r) == r.cin[2 + r.nmethods + 4]

\* a SOCKS reply has been handed to the client stream: it follows the 2
\* bytes of the method selection reply
Replied(r) == Len(r.cout) > 2

RepOf(r) == r.cout[4]

\* the reply as written: 10 bytes for an IPv4 address, 22 for an IPv6 one
ReplyBytes(r) == SubSeq(r.cout, 3, IF r.cout[6] = ATYP_IPV4 THEN 12 ELSE 24)

\* some byte has been relayed, or read to be relayed
Relayed(r) ==
    \/ r.tin # <<>> \/ r.tout # <<>> \/ r.bufCT # <<>> \/ r.bufTC # <<>>
    \/ (r.reqEnd > 0 /\ Len(r.cin) > r.reqEnd)
    \/ (r.replyEnd > 0 /\ Len(r.cout) > r.replyEnd)

IsPrefix(a, b) == Len(a) <= Len(b) /\ SubSeq(b, 1, Len(a)) = a

---------------------------------------------------------------------------
(* C1.  Method negotiation: for a method list (VER 5, NMETHODS >= 1) that  *)
(* contains 0x00 at any position the server writes exactly 05 00 and goes  *)
(* on to await the request; for a list without 0x00 it writes exactly      *)
(* 05 FF, reads no request, resolves and connects nowhere, and closes.     *)

C1_MethodNegotiation ==
    \A s \in Sessions :
        LET r == sess[s]
        IN MethodsRead(r) =>
             IF \E i \in 1..r.nmethods : MethodList(r)[i] = 0
             THEN IF r.pc = "write_accept" THEN r.cout = <<>>
                  ELSE /\ Len(r.cout) >= 2
                       /\ SubSeq(r.cout, 1, 2) = <<5, 0>>
                       /\ \/ r.pc = "req_hdr"
                          \/ Len(r.cin) > 2 + r.nmethods
                          \/ r.pc = "done" /\ r.err = "read"
                          \/ r.pc = "done" /\ r.err = "write" /\ r.werr /\ Len(r.cout) = 2
             ELSE /\ Len(r.cin) = 2 + r.nmethods
                  /\ r.resolves = 0 /\ r.connects = 0 /\ r.upstream = "none"
                  /\ \/ r.pc = "write_reject" /\ r.cout = <<>>
                     \/ r.pc = "done" /\ r.cout = <<5, 255>> /\ ~r.client_open

\* 0x00 offered in second place is accepted and the request awaited
C1_Witness ==
    \E s \in Sessions :
        /\ MethodsRead(sess[s])
        /\ MethodList(sess[s]) = <<2, 0>>
        /\ sess[s].cout = <<5, 0>>
        /\ sess[s].pc = "req_hdr"

---------------------------------------------------------------------------
(* C2.  Every request whose CMD is not 0x01 gets a reply with REP 0x01     *)
(* and the session closes without resolving or connecting.                 *)

C2_UnsupportedCommandReplied ==
    \A s \in Sessions :
        LET r == sess[s]
        IN HeaderRead(r) /\ ReqCmd(r) # 1 =>
             /\ r.resolves = 0 /\ r.connects = 0
             /\ \/ r.pc = "reply_cmd"
                \/ r.pc = "done" /\ Replied(r) /\ RepOf(r) = 1 /\ ~r.client_open

---------------------------------------------------------------------------
(* C3.  A CONNECT request whose target does not resolve (the resolver      *)
(* fails or gives no address) gets a reply with REP 0x01, then the session *)
(* closes, and no connection is attempted.                                 *)

C3_UnresolvableReplied ==
    \A s \in Sessions :
        LET r == sess[s]
        IN r.resolves = 1 /\ r.target_socket_addr = NoSock =>
             /\ r.connects = 0
             /\ \/ r.pc = "reply_unres"
                \/ r.pc = "done" /\ Replied(r) /\ RepOf(r) = 1 /\ ~r.client_open

---------------------------------------------------------------------------
(* C4.  After a failed connect the REP written depends on the kind of the  *)
(* failure only: refused 0x05, address not available 0x04, timed out 0x06, *)
(* any other 0x01; one such reply is written and the session fails         *)
(* without relaying.                                                       *)

C4_RepOfKind(kind) ==
    IF kind = "ConnectionRefused" THEN 5
    ELSE IF kind = "AddrNotAvailable" THEN 4
    ELSE IF kind = "TimedOut" THEN 6
    ELSE 1

C4_ConnectFailureReply ==
    \A s \in Sessions :
        LET r == sess[s]
        IN r.after_err \in ConnectErrors =>
             /\ r.connects = 1
             /\ r.upstream = "none"
             /\ ~Relayed(r) /\ r.stCT = "idle" /\ r.stTC = "idle"
             /\ \/ r.pc = "reply_conn" /\ r.cout = <<5, 0>>
                \/ /\ r.pc = "done" /\ r.result = "Err"
                   /\ Replied(r)
                   /\ RepOf(r) = C4_RepOfKind(r.after_err)
                   /\ r.cout = <<5, 0>> \o ReplyBytes(r)

\* an unreachable host (neither refused, not available nor timed out) was
\* answered with the general failure
C4_Witness ==
    \E s \in Sessions :
        /\ sess[s].after_err = "HostUnreachable"
        /\ sess[s].pc = "done"
        /\ sess[s].err = "HostUnreachable"
        /\ RepOf(sess[s]) = 1

---------------------------------------------------------------------------
(* C5.  Order within a session: the method selection reply is written      *)
(* before any byte of the request is read; the success reply, which        *)
(* carries the local address of the upstream socket, is written only once  *)
(* the upstream connection is established; nothing is relayed before a     *)
(* success reply was written, and never after a failure reply.             *)

C5_Ordering ==
    \A s \in Sessions :
        LET r == sess[s]
        IN /\ MethodsRead(r) /\ Len(r.cin) > 2 + r.nmethods =>
                Len(r.cout) >= 2 /\ SubSeq(r.cout, 1, 2) = <<5, 0>>
           /\ Replied(r) /\ RepOf(r) = 0 =>
                /\ r.connects = 1
                /\ r.upstream \in {"open", "closed"}
                /\ ReplyBytes(r) = EncodeReply(0, r.bind_addr)
                /\ r.bind_addr = LocalAddr(r.target_socket_addr.ip)
           /\ Relayed(r) \/ r.pc = "relay" =>
                Replied(r) /\ RepOf(r) = 0 /\ r.replyEnd = Len(ReplyBytes(r)) + 2
           /\ Replied(r) /\ RepOf(r) # 0 =>
                ~Relayed(r) /\ r.pc = "done" /\ r.stCT = "idle" /\ r.stTC = "idle"

\* a session relays after its success reply
C5_Witness ==
    \E s \in Sessions :
        /\ sess[s].pc = "relay"
        /\ sess[s].tout # <<>>
        /\ Len(sess[s].cout) > sess[s].replyEnd
        /\ RepOf(sess[s]) = 0

---------------------------------------------------------------------------
(* C6.  As claimed: once one direction of the relay has reached end of     *)
(* stream, no further byte is copied in the other direction.               *)

---------------------------------------------------------------------------
(* C7.  What reaches the target is a prefix of what the client sent after  *)
(* its request, and what reaches the client after the reply is a prefix of *)
(* what the target sent: same bytes, same order, none twice, none left     *)
(* out, and no byte of the handshake or request among them.                *)

C7_RelayTransparent ==
    \A s \in Sessions :
        LET r == sess[s]
        IN /\ r.stCT = "idle" => r.tout = <<>> /\ r.tin = <<>>
           /\ r.stCT # "idle" =>
                /\ IsPrefix(r.tout, SubSeq(r.cin, r.reqEnd + 1, Len(r.cin)))
                /\ r.tout \o r.bufCT = SubSeq(r.cin, r.reqEnd + 1, Len(r.cin))
                /\ IsPrefix(SubSeq(r.cout, r.replyEnd + 1, Len(r.cout)), r.tin)
                /\ SubSeq(r.cout, r.replyEnd + 1, Len(r.cout)) \o r.bufTC = r.tin
                /\ r.reqEnd = 2 + r.nmethods + 4 + 2
                     + (IF r.atyp = 1 THEN 4 ELSE IF r.atyp = 4 THEN 16 ELSE 1 + r.dlen)

\* every byte of both payloads has been delivered to the other side
C7_Witness ==
    \E s \in Sessions :
        /\ Len(sess[s].tout) = MaxRelay
        /\ Len(sess[s].tin) = MaxRelay
        /\ Len(sess[s].cout) = sess[s].replyEnd + MaxRelay

---------------------------------------------------------------------------
(* C8.  Sessions are isolated: a step of one session changes no other      *)
(* session and does not stop the accept loop, whatever the stages of the   *)
(* sessions and whether the step fails the session or ends its relay; the  *)
(* loop can accept as long as it runs.                                     *)

C8_SessionsIsolated ==
    /\ [](running /\ (\E s \in Sessions : sess[s].pc = "idle")
            => ENABLED (\E s \in Sessions : Accept(s)))
    /\ [][\A s \in Sessions :
            sess'[s] # sess[s] =>
              /\ \A t \in Sessions \ {s} : sess'[t] = sess[t]
              /\ running' = running]_vars

\* one session has failed while another is relaying and the loop runs
C8_Witness ==
    \E s, t \in Sessions :
        /\ sess[s].pc = "done" /\ sess[s].result = "Err"
        /\ sess[t].pc = "relay" /\ sess[t].tout # <<>>
        /\ running

---------------------------------------------------------------------------
(* C9.  Malformed input ends the session: once a header with a version     *)
(* other than 5 (either stage), a reserved byte other than 0 or an         *)
(* unsupported address type has been read, the session reads nothing more  *)
(* and reaches its end with the client stream closed; its steps leave the  *)
(* process running.                                                        *)

Malformed(r) ==
    \/ Len(r.cin) >= 2 /\ r.cin[1] # 5
    \/ /\ HeaderRead(r)
       /\ \/ ReqVer(r) # 5
          \/ ReqRsv(r) # 0
          \/ ReqAtyp(r) \notin {1, 3, 4}

C9_MalformedTerminates ==
    /\ [](\A s \in Solo :
            Malformed(sess[s]) =>
              /\ sess[s].pc \notin ReadPcs
              /\ Len(sess[s].cin) <= 2 + sess[s].nmethods + 4)
    /\ \A s \in Solo :
         Malformed(sess[s]) ~> (~running \/ (sess[s].pc = "done" /\ ~sess[s].client_open))
    /\ [][\A s \in Solo : sess'[s] # sess[s] => running' = running]_vars

\* a request with an unsupported address type was answered and the session
\* is over
C9_Witness ==
    \E s \in Solo :
        /\ HeaderRead(sess[s])
        /\ ReqVer(sess[s]) = 5 /\ ReqRsv(sess[s]) = 0 /\ ReqCmd(sess[s]) = 1
        /\ ReqAtyp(sess[s]) = 5
        /\ sess[s].pc = "done" /\ ~sess[s].client_open
        /\ Replied(sess[s])
        /\ running

---------------------------------------------------------------------------
(* C10.  Every failure reply (REP other than 0) carries the unspecified    *)
(* address: ATYP 1, 0.0.0.0, port 0.                                       *)

C10_FailureReplyUnspecified ==
    \A s \in Sessions :
        LET r == sess[s]
        IN Replied(r) /\ RepOf(r) # 0 /\ ~r.werr =>
             SubSeq(r.cout, 5, Len(r.cout)) = <<0, 1, 0, 0, 0, 0, 0, 0>>

---------------------------------------------------------------------------
(* C11.  In the request stage every protocol error (version other than 5,  *)
(* reserved byte other than 0, unsupported command, unsupported address    *)
(* type) is answered with a reply REP 0x01 before the session closes.      *)

C11_ProtocolErrorReplied ==
    \A s \in Sessions :
        LET r == sess[s]
        IN /\ HeaderRead(r)
           /\ r.pc = "done"
           /\ \/ ReqVer(r) # 5
              \/ ReqRsv(r) # 0
              \/ ReqCmd(r) # 1
              \/ ReqAtyp(r) \notin {1, 3, 4}
           => Replied(r) /\ RepOf(r) = 1 /\ r.result = "Err"

---------------------------------------------------------------------------
(* C12.  When the write of a failure reply fails, the write error is       *)
(* swallowed: the session ends with the error the reply was about          *)
(* (protocol, resolution or connect) and the client stream closed.         *)

\* the write of a failure reply has failed
FailureReplyWriteFailed(r) ==
    r.pc = "done" /\ Replied(r) /\ RepOf(r) # 0 /\ r.werr

C12_WriteErrorSwallowed ==
    \A s \in Sessions :
        LET r == sess[s]
        IN FailureReplyWriteFailed(r) =>
             r.result = "Err" /\ r.err = r.after_err /\ ~r.client_open

---------------------------------------------------------------------------
(* C13.  A session only moves forward: from awaiting the methods to        *)
(* awaiting the request, to connecting, to relaying, to closed, or from a  *)
(* stage before the relay to failed; closed and failed are final; no       *)
(* position of the handler is entered twice; once a protocol violation has *)
(* been found nothing more is read from the client.                        *)

\* the position of the handler in the order of its await points
PcRank(pc) ==
    CASE pc = "idle" -> 0
      [] pc = "method_hdr" -> 1
      [] pc = "methods" -> 2
      [] pc \in {"write_reject", "write_accept"} -> 3
      [] pc = "req_hdr" -> 4
      [] pc \in {"reply_cmd", "reply_atyp", "addr_v4", "dom_len", "addr_v6"} -> 5
      [] pc = "dom_name" -> 6
      [] pc = "port" -> 7
      [] pc = "resolve" -> 8
      [] pc \in {"reply_unres", "connect"} -> 9
      [] pc \in {"reply_conn", "reply_ok"} -> 10
      [] pc = "relay" -> 11
      [] pc = "done" -> 12

\* the stage of the session the handler is in
StageOf(r) ==
    CASE r.pc = "idle" -> "NotAccepted"
      [] r.pc \in {"method_hdr", "methods", "write_reject", "write_accept"} -> "AwaitingMethods"
      [] r.pc \in {"req_hdr", "reply_cmd", "reply_atyp", "addr_v4", "dom_len",
                   "dom_name", "addr_v6", "port"} -> "AwaitingRequest"
      [] r.pc \in {"resolve", "reply_unres", "connect", "reply_conn", "reply_ok"} -> "Connecting"
      [] r.pc = "relay" -> "Relaying"
      [] r.pc = "done" -> IF r.result = "Ok" THEN "Closed" ELSE "Failed"

\* the stages a session may be in one step after stage st
StagesAfter(st) ==
    CASE st = "NotAccepted" -> {"AwaitingMethods"}
      [] st = "AwaitingMethods" -> {"AwaitingMethods", "AwaitingRequest", "Failed"}
      [] st = "AwaitingRequest" -> {"AwaitingRequest", "Connecting", "Failed"}
      [] st = "Connecting" -> {"Connecting", "Relaying", "Failed"}
      [] st = "Relaying" -> {"Relaying", "Closed"}
      [] st \in {"Closed", "Failed"} -> {}

C13_ForwardOnly ==
    [][\A s \in Sessions :
         LET a == sess[s]
             b == sess'[s]
         IN a # b =>
              /\ a.pc # "done"
              /\ StageOf(b) \in StagesAfter(StageOf(a))
              /\ \/ PcRank(b.pc) > PcRank(a.pc)
                 \/ a.pc = "relay" /\ b.pc = "relay"
              /\ a.pc \in {"reply_cmd", "reply_atyp", "reply_unres", "reply_conn",
                           "write_reject"} => b.cin = a.cin /\ b.pc = "done"]_vars

\* a session that went through every stage and closed
C13_Witness ==
    \E s \in Sessions :
        /\ StageOf(sess[s]) = "Closed"
        /\ sess[s].resolves = 1 /\ sess[s].connects = 1
        /\ sess[s].replyEnd > 0
        /\ sess[s].stCT = "done" /\ sess[s].stTC = "done"

---------------------------------------------------------------------------
(* C14.  Every reply written is the bytes 05, REP, 00, then ATYP 01 and    *)
(* the 4 address bytes or ATYP 04 and the 16 address bytes, then the port  *)
(* as 2 bytes big-endian: 10 or 22 bytes, the same for success and for     *)
(* failure; ATYP 03 is never written.                                      *)

\* the bytes handed to the write of the reply
ReplyWritten(r) ==
    SubSeq(r.cout, 3, IF r.replyEnd > 0 THEN r.replyEnd ELSE Len(r.cout))

C14_ReplyEncoding ==
    \A s \in Sessions :
        LET r == sess[s]
            b == ReplyWritten(r)
            n == Len(b)
        IN Replied(r) =>
             /\ n \in {10, 22}
             /\ b[1] = 5 /\ b[2] = r.rep_code /\ b[3] = 0
             /\ b[4] \in {1, 4}
             /\ b[4] = 1 <=> r.rep_addr.ip.v = 4
             /\ b[4] = 4 <=> r.rep_addr.ip.v = 6
             /\ n = (IF b[4] = 1 THEN 10 ELSE 22)
             /\ SubSeq(b, 5, n - 2) = r.rep_addr.ip.o
             /\ b[n - 1] * 256 + b[n] = r.rep_addr.port
             /\ b[n - 1] \in 0..255 /\ b[n] \in 0..255

\* a failure reply carrying an IPv6 address and the port 8080
C14_Witness ==
    \E s \in Sessions :
        /\ Replied(sess[s])
        /\ Len(ReplyWritten(sess[s])) = 22
        /\ sess[s].rep_code # 0
        /\ SubSeq(ReplyWritten(sess[s]), 21, 22) = <<31, 144>>

---------------------------------------------------------------------------
(* C15.  A greeting whose version is not 5 fails the session with nothing  *)
(* written and no method byte read, whatever NMETHODS is; a greeting of    *)
(* version 5 with NMETHODS = 0 fails it with nothing written; a session    *)
(* the handler fails during method negotiation has written nothing, or     *)
(* 05 FF for a method list without 00.  (The one other way to end in this  *)
(* stage is an I/O error of the stream, among them a failed write of       *)
(* 05 00.)                                                                 *)

\* the handler returned before the method selection 05 00 was delivered
EndedInNegotiation(r) ==
    /\ r.pc = "done"
    /\ ~(Len(r.cout) > 2 \/ (Len(r.cout) = 2 /\ r.cout[2] = 0 /\ ~r.werr))

C15_NegotiationFailures ==
    \A s \in Sessions :
        LET r == sess[s]
        IN /\ Len(r.cin) >= 2 /\ r.cin[1] # 5 =>
                /\ r.pc = "done" /\ r.result = "Err"
                /\ r.err = "Unsupported SOCKS version"
                /\ r.cout = <<>> /\ Len(r.cin) = 2
           /\ Len(r.cin) >= 2 /\ r.cin[1] = 5 /\ r.cin[2] = 0 =>
                /\ r.pc = "done" /\ r.result = "Err"
                /\ r.err = "No methods offered"
                /\ r.cout = <<>> /\ Len(r.cin) = 2
           /\ EndedInNegotiation(r) =>
                /\ r.result = "Err"
                /\ \/ r.cout = <<>>
                   \/ /\ r.cout = <<5, 255>>
                      /\ Len(r.cin) = 2 + r.nmethods
                      /\ \A i \in 3..Len(r.cin) : r.cin[i] # 0
                      /\ r.err \in {"No supported authentication method", "write"}
                   \/ r.cout = <<5, 0>> /\ r.werr /\ r.err = "write"

\* a greeting wrong in both bytes failed on its version
C15_Witness ==
    \E s \in Sessions :
        /\ sess[s].cin = <<4, 0>>
        /\ sess[s].pc = "done"
        /\ sess[s].err = "Unsupported SOCKS version"
        /\ sess[s].cout = <<>>

---------------------------------------------------------------------------
(* C16.  A session writes at most one method selection and at most one     *)
(* reply; a reply is written only after the method selection 05 00; a      *)
(* session relays only if its one reply had REP = 00, and what it writes   *)
(* to the client after that reply is relayed data.                         *)

C16_OneReply ==
    \A s \in Sessions :
        LET r == sess[s]
            n == Len(r.cout)
        IN /\ n >= 1 => n >= 2 /\ r.cout[1] = 5 /\ r.cout[2] \in {0, 255}
           /\ n >= 2 /\ r.cout[2] = 255 => n = 2
           /\ n > 2 =>
                /\ r.cout[2] = 0
                /\ n >= 12
                /\ Len(ReplyWritten(r)) = (IF r.cout[6] = 1 THEN 10 ELSE 22)
                /\ r.cout[4] # 0 => r.replyEnd = 0 /\ r.stCT = "idle" /\ r.pc = "done"
           /\ r.pc = "relay" \/ r.stCT # "idle" =>
                /\ n > 2 /\ r.cout[4] = 0
                /\ r.replyEnd = 2 + (IF r.cout[6] = 1 THEN 10 ELSE 22)
                /\ IsPrefix(SubSeq(r.cout, r.replyEnd + 1, n), r.tin)

\* a relaying session has written relayed data after its one reply
C16_Witness ==
    \E s \in Sessions :
        /\ sess[s].pc = "relay"
        /\ sess[s].replyEnd = 12
        /\ Len(sess[s].cout) = 13
        /\ sess[s].cout[4] = 0

---------------------------------------------------------------------------
(* C17.  After the 4 header bytes the handler reads exactly 4 address      *)
(* bytes for ATYP 01, 16 for ATYP 04, or the length byte L and L bytes for *)
(* ATYP 03, then exactly 2 port bytes b1 b2; the target port is            *)
(* 256 * b1 + b2; nothing more is read from the client before the relay    *)
(* starts.                                                                 *)

\* the number of address bytes the request of r takes, by its ATYP
AddrBytes(r) ==
    LET h == 2 + r.nmethods
    IN CASE r.cin[h + 4] = 1 -> 4
         [] r.cin[h + 4] = 4 -> 16
         [] r.cin[h + 4] = 3 -> 1 + r.cin[h + 5]
         [] OTHER -> 0

C17_RequestFraming ==
    \A s \in Sessions :
        LET r == sess[s]
            h == 2 + r.nmethods
        IN /\ r.pc = "port" =>
                /\ ReqAtyp(r) \in {1, 3, 4}
                /\ Len(r.cin) = h + 4 + AddrBytes(r)
           /\ r.reqEnd > 0 =>
                /\ ReqAtyp(r) \in {1, 3, 4}
                /\ ReqAtyp(r) = 3 => r.dlen = r.cin[h + 5] /\ Len(r.target_addr.text) = r.dlen
                /\ r.reqEnd = h + 4 + AddrBytes(r) + 2
                /\ Len(r.cin) >= r.reqEnd
                /\ r.target_port = 256 * r.cin[r.reqEnd - 1] + r.cin[r.reqEnd]
                /\ r.stCT = "idle" => Len(r.cin) = r.reqEnd

\* a request for a 2-byte name and port 8080 has been read
C17_Witness ==
    \E s \in Sessions :
        /\ sess[s].reqEnd = 2 + sess[s].nmethods + 4 + 3 + 2
        /\ ReqAtyp(sess[s]) = 3
        /\ sess[s].target_port = 8080
        /\ sess[s].pc = "resolve"

---------------------------------------------------------------------------
(* C18.  The request header is checked in the order version, reserved      *)
(* byte, command, address type, and the session fails on the first check   *)
(* violated: a wrong version or reserved byte fails it whatever the        *)
(* command is, an unsupported command fails it whatever the address type   *)
(* is, and after a failed check no address or port byte is read.           *)

\* the check of the request header that fails first, "none" if all pass
FirstFailedCheck(r) ==
    IF ReqVer(r) # 5 THEN "Invalid SOCKS version in request"
    ELSE IF ReqRsv(r) # 0 THEN "Non-zero RSV byte"
    ELSE IF ReqCmd(r) # 1 THEN "Unsupported command"
    ELSE IF ReqAtyp(r) \notin {1, 3, 4} THEN "Unsupported address type"
    ELSE "none"

C18_CheckOrder ==
    \A s \in Sessions :
        LET r == sess[s]
            f == FirstFailedCheck(r)
        IN HeaderRead(r) /\ f # "none" =>
             /\ Len(r.cin) = 2 + r.nmethods + 4
             /\ r.reqEnd = 0 /\ r.resolves = 0 /\ r.connects = 0
             /\ f \in {"Invalid SOCKS version in request", "Non-zero RSV byte"} =>
                  r.pc = "done" /\ r.err = f /\ r.after_err = "none"
             /\ f \in {"Unsupported command", "Unsupported address type"} =>
                  /\ r.after_err = f
                  /\ r.pc \in {"reply_cmd", "reply_atyp", "done"}
                  /\ r.pc = "done" => r.err \in {f, "write"}

\* a header with an unsupported command and an unsupported address type
\* failed on its command
C18_Witness ==
    \E s \in Sessions :
        /\ HeaderRead(sess[s])
        /\ ReqVer(sess[s]) = 5 /\ ReqRsv(sess[s]) = 0
        /\ ReqCmd(sess[s]) = 2 /\ ReqAtyp(sess[s]) = 5
        /\ sess[s].pc = "done"
        /\ sess[s].err = "Unsupported command"

---------------------------------------------------------------------------
(* C19.  A session resolves a name or connects upstream only after its     *)
(* method negotiation was accepted and a request with VER = 5, RSV = 0,    *)
(* CMD = 1 and ATYP 1, 3 or 4 was read with its whole address and port;    *)
(* it resolves at most once and connects at most once, to the address the  *)
(* resolution gave, with no second attempt after a failure.                *)

C19_UpstreamOnlyAfterValidRequest ==
    \A s \in Sessions :
        LET r == sess[s]
            h == 2 + r.nmethods
        IN /\ r.resolves \in {0, 1} /\ r.connects \in {0, 1}
           /\ r.connects <= r.resolves
           /\ r.pc = "resolve" => r.resolves = 0
           /\ r.pc = "connect" => r.resolves = 1 /\ r.connects = 0
           /\ r.resolves = 0 =>
                /\ r.target_socket_addr = NoSock /\ r.upstream = "none"
                /\ PcRank(r.pc) <= PcRank("resolve") \/ r.pc = "done"
           /\ r.resolves = 1 =>
                /\ Len(r.cout) >= 2 /\ r.cout[1] = 5 /\ r.cout[2] = 0
                /\ HeaderRead(r) /\ FirstFailedCheck(r) = "none"
                /\ r.reqEnd = h + 4 + AddrBytes(r) + 2
                /\ Len(r.cin) >= r.reqEnd
           /\ r.connects = 1 =>
                /\ r.target_socket_addr # NoSock
                /\ r.target_socket_addr.port = r.target_port
                /\ ReqAtyp(r) = 1 => r.target_socket_addr.ip = IpV4(SubSeq(r.cin, h + 5, h + 8))
                /\ ReqAtyp(r) = 4 => r.target_socket_addr.ip = IpV6(SubSeq(r.cin, h + 5, h + 20))
                /\ ReqAtyp(r) = 3 => r.target_socket_addr.ip \in HostIps
                /\ r.pc \in {"reply_conn", "reply_ok", "relay", "done"}
           /\ r.upstream # "none" => r.connects = 1

\* a connect to the address a name resolved to failed, and was not retried
C19_Witness ==
    \E s \in Sessions :
        /\ sess[s].pc = "done"
        /\ sess[s].resolves = 1 /\ sess[s].connects = 1
        /\ sess[s].target_addr.kind = "domain"
        /\ sess[s].after_err = "TimedOut"

---------------------------------------------------------------------------
(* C20.  The handler returns Ok exactly when the session started the       *)
(* relay, that is after the success reply was written: every return before *)
(* the relay is an Err, which the session's task logs; once the relay has  *)
(* started the handler returns Ok, whether the relay ended by end of       *)
(* stream or by an I/O error, and the task logs nothing.                   *)

\* the handler reached copy_bidirectional
RelayStarted(r) == r.stCT # "idle"

C20_ResultIffRelayed ==
    \A s \in Sessions :
        LET r == sess[s]
        IN /\ r.pc # "done" => r.result = "none" /\ ~r.logged
           /\ r.pc = "done" =>
                /\ r.result \in {"Ok", "Err"}
                /\ r.result = "Ok" <=> RelayStarted(r)
                /\ r.logged <=> r.result = "Err"
                /\ r.result = "Err" => r.err # "none" /\ r.replyEnd = 0 /\ ~r.relayErr
                /\ r.result = "Ok" =>
                     /\ r.err = "none"
                     /\ r.replyEnd > 0 /\ r.cout[4] = 0
                     /\ r.relayErr \/ (r.stCT = "done" /\ r.stTC = "done")

\* a relay ended by an I/O error, and the handler returned Ok
C20_Witness ==
    \E s \in Sessions :
        /\ sess[s].pc = "done"
        /\ sess[s].relayErr
        /\ sess[s].result = "Ok"
        /\ ~sess[s].logged

====
